---- MODULE Spec2Model ----
(***************************************************************************)
(* A model of the Streamlet node of cs244b_project (src/lib.rs,            *)
(* src/main.rs, src/network.rs): the StreamletInstance helpers (signing,   *)
(* signature counting, notarization threshold, leader election) and the    *)
(* event loop of StreamletInstance::run.                                   *)
(*                                                                         *)
(* Options are sequences of length 0 (None) or 1 (Some(x)).                *)
(* Ed25519 is modelled as an ideal deterministic signature scheme: a       *)
(* signature is the pair (public key of the signer, bytes signed).         *)
(***************************************************************************)
EXTENDS Integers, Sequences, FiniteSets, TLC

VARIABLES
    id,                   \* StreamletInstance.id, per instance
    expected_peer_count,  \* StreamletInstance.expected_peer_count, per instance
    public_keys,          \* StreamletInstance.public_keys (a Vec), per instance
    blockchain_manager,   \* StreamletInstance.blockchain_manager, per instance
    needs_init,           \* run(): the local needs_init, per node
    recv_init,            \* run(): state of the init channel, per node
    halted,               \* TRUE once the node's process has panicked
    message,              \* the Message a harness builds, signs and verifies
    ret,                  \* what the last helper call of a harness returned
    evt,                  \* run(): the local evt of the latest step of an observed node
    calls,                \* the calls that step made on peers, net_stack and channels
    delivered,            \* the byte strings the transport of a scenario has delivered
    args,                 \* main(): the command line of the process, main.rs:12
    blocks,               \* the example app: App.blocks (a Vec<Block>)
    init_rcv,             \* the example app: state of the init channel of main
    response_rcv          \* the example app: responses waiting in the channel of main

vars == <<id, expected_peer_count, public_keys, blockchain_manager,
          needs_init, recv_init, halted, message, ret, evt, calls, delivered,
          args, blocks, init_rcv, response_rcv>>

\* The state of the example blockchain app, which no step of a Streamlet node
\* touches
AppVars == <<blocks, init_rcv, response_rcv>>

---------------------------------------------------------------------------
(* Bounds of the model *)

NumNodes == 2        \* nodes of a deployment (event loop specification)
MaxHosts == 3        \* largest host count given on the command line
MaxKeys == 3         \* longest public_keys list of the signing harness
MaxAds == 1          \* most advertisements one node of a deployment handles
MaxSigs == 3         \* most signatures attached to one message
MaxPeerCount == 4    \* largest expected_peer_count given to new()
MaxEpoch == 5        \* epochs are drawn from 0..MaxEpoch
MaxPayload == 3      \* byte payloads of the signature harness are 1..MaxPayload

(* Program constants *)

DEFAULT_NUM_HOSTS == 2   \* main.rs:5
NumInstances == 3        \* the instances the unit test constructs, lib.rs:274-276

Nodes == 1..NumNodes
Instances == 1..NumInstances

None == <<>>
Some(x) == <<x>>
IsSome(o) == Len(o) = 1
Unwrap(o) == o[1]

---------------------------------------------------------------------------
(* Cryptographic identity: ed25519 Keypair / PublicKey / Signature *)

\* Keypair::generate(&mut csprng): instance i draws a fresh key, distinct from
\* every other instance's.
KeypairGenerate(i) == [secret |-> i, public |-> i]

\* keypair.sign(bytes)
KeypairSign(keypair, bytes) == [key |-> keypair.public, bytes |-> bytes]

\* pk.verify(bytes, signature): Ok or Err
PkVerify(pk, bytes, signature) ==
    IF signature.key = pk /\ signature.bytes = bytes THEN "Ok" ELSE "Err"

\* The fields of a StreamletInstance, as the &self the helpers receive.
Self(i) ==
    [id |-> id[i],
     expected_peer_count |-> expected_peer_count[i],
     keypair |-> KeypairGenerate(i),
     public_keys |-> public_keys[i]]

get_public_key(self) == self.keypair.public

---------------------------------------------------------------------------
(* Message envelope *)

Kinds == {"Test", "Propose", "Vote", "PeerAdvertisement"}
Nonces == {0, 1}

BlockPayload(b) == [tag |-> "Block", v |-> b]
StringPayload(s) == [tag |-> "String", v |-> s]
PeerAdPayload(pk) == [tag |-> "PeerAdvertisement", v |-> pk]

\* A faulty serialize_payload: the nonce is part of the bytes signed.
serialize_payload_with_nonce(m) == <<m.payload.tag, m.payload.v, m.nonce>>

\* message.serialize_payload(): the bytes of the payload alone
serialize_payload(m) == <<m.payload.tag, m.payload.v>>

\* message.serialize(): the bytes of the whole envelope
serialize(m) == <<m.kind, m.nonce, m.payload.tag, m.payload.v, m.signatures>>

\* Message::deserialize(bytes): the message, or a panic on bytes that encode
\* no message.  The caller takes the result as a Message (lib.rs:148): there
\* is no error value to return.
deserialize(bytes) ==
    IF Len(bytes) = 5
    THEN [panic |-> FALSE,
          message |-> [payload |-> [tag |-> bytes[3], v |-> bytes[4]],
                       kind |-> bytes[1], nonce |-> bytes[2],
                       signatures |-> bytes[5]]]
    ELSE [panic |-> TRUE, message |-> <<>>]

---------------------------------------------------------------------------
(* Streamlet helpers, lib.rs:178-252 *)

\* fn sign(&self, bytes)
sign(self, bytes) == KeypairSign(self.keypair, bytes)

\* A faulty sign_message: the signature is inserted at the front.
sign_message_at_front(self, m) ==
    IF IsSome(m.signatures)
    THEN LET signature == KeypairSign(self.keypair, serialize_payload(m))
         IN [panic |-> FALSE,
             message |-> [m EXCEPT !.signatures =
                              Some(<<signature>> \o Unwrap(m.signatures))]]
    ELSE [panic |-> TRUE, message |-> m]

\* A faulty sign_message: a missing container is created instead of refused.
sign_message_creating_container(self, m) ==
    LET signature == KeypairSign(self.keypair, serialize_payload(m))
    IN [panic |-> FALSE,
        message |-> [m EXCEPT !.signatures =
                         Some(Append(IF IsSome(m.signatures)
                                     THEN Unwrap(m.signatures) ELSE <<>>,
                                     signature))]]

\* fn sign_message(&self, message): the message afterwards, or a panic
sign_message(self, m) ==
    IF IsSome(m.signatures)
    THEN LET signature == KeypairSign(self.keypair, serialize_payload(m))
         IN [panic |-> FALSE,
             message |-> [m EXCEPT !.signatures =
                              Some(Append(Unwrap(m.signatures), signature))]]
    ELSE [panic |-> TRUE, message |-> m]

\* A faulty verify_signature: the two branches are swapped.
verify_signature_swapped(self, m, signature, pk) ==
    LET result == PkVerify(pk, serialize_payload(m), signature)
    IN IF result = "Err" THEN TRUE ELSE FALSE

\* fn verify_signature(&self, message, signature, pk)
verify_signature(self, m, signature, pk) ==
    LET result == PkVerify(pk, serialize_payload(m), signature)
    IN IF result = "Err" THEN FALSE ELSE TRUE

\* The inner loop of verify_message over self.public_keys, from index j:
\* 1 at the first key that verifies (num_valid_signatures += 1; break).
RECURSIVE KeyLoop(_, _, _, _)
KeyLoop(self, m, signature, j) ==
    IF j > Len(self.public_keys) THEN 0
    ELSE IF verify_signature(self, m, signature, self.public_keys[j]) THEN 1
    ELSE KeyLoop(self, m, signature, j + 1)

\* The outer loop of verify_message over the signatures, from index i.
RECURSIVE SigLoop(_, _, _, _, _)
SigLoop(self, m, signatures, i, num_valid_signatures) ==
    IF i > Len(signatures) THEN num_valid_signatures
    ELSE SigLoop(self, m, signatures, i + 1,
                 num_valid_signatures + KeyLoop(self, m, signatures[i], 1))

\* A faulty verify_message: the inner loop lacks its break, so a signature is
\* counted once for every key of the list that verifies it.
RECURSIVE KeyLoopNoBreak(_, _, _, _)
KeyLoopNoBreak(self, m, signature, j) ==
    IF j > Len(self.public_keys) THEN 0
    ELSE (IF verify_signature(self, m, signature, self.public_keys[j]) THEN 1 ELSE 0)
         + KeyLoopNoBreak(self, m, signature, j + 1)

RECURSIVE SigLoopNoBreak(_, _, _, _, _)
SigLoopNoBreak(self, m, signatures, i, num_valid_signatures) ==
    IF i > Len(signatures) THEN num_valid_signatures
    ELSE SigLoopNoBreak(self, m, signatures, i + 1,
                        num_valid_signatures + KeyLoopNoBreak(self, m, signatures[i], 1))

verify_message_no_break(self, m) ==
    IF IsSome(m.signatures)
    THEN [panic |-> FALSE, val |-> SigLoopNoBreak(self, m, Unwrap(m.signatures), 1, 0)]
    ELSE [panic |-> TRUE, val |-> 0]

\* fn verify_message(&self, message): unwrap() panics on a missing container
verify_message(self, m) ==
    IF IsSome(m.signatures)
    THEN [panic |-> FALSE, val |-> SigLoop(self, m, Unwrap(m.signatures), 1, 0)]
    ELSE [panic |-> TRUE, val |-> 0]

\* fn is_notarized(&self, message)
is_notarized(self, m) ==
    LET r == verify_message(self, m)
    IN IF r.panic THEN [panic |-> TRUE, val |-> FALSE]
       ELSE [panic |-> FALSE, val |-> r.val >= self.expected_peer_count \div 2]

\* A faulty add_public_key: the new key overwrites the list.
add_public_key_overwriting(self, pk) == <<pk>>

\* A faulty add_public_key: the new key takes the place of the last one.
add_public_key_replacing_last(self, pk) ==
    Append(SubSeq(self.public_keys, 1, Len(self.public_keys) - 1), pk)

\* fn add_public_key(&mut self, pk): the public_keys afterwards
add_public_key(self, pk) == Append(self.public_keys, pk)

---------------------------------------------------------------------------
(* Leader election, lib.rs:240-245 *)

\* DefaultHasher::new(); hasher.write_i64(epoch); hasher.finish(): SipHash-1-3
\* with the zero key over the 8 little-endian bytes of epoch, as four 16-bit
\* limbs, most significant first.
DefaultHasherFinish(epoch) ==
    CASE epoch = 0 -> <<48480, 44214, 22727, 40517>>   \* 0xbd60acb658c79e45
      [] epoch = 1 -> <<7839, 29505, 25046, 11737>>    \* 0x1e9f734161d62dd9
      [] epoch = 2 -> <<42195, 4208, 53538, 47126>>    \* 0xa4d31070d122b816
      [] epoch = 3 -> <<64908, 26390, 39232, 40186>>   \* 0xfd8c671699409cfa
      [] epoch = 4 -> <<21975, 21751, 51693, 26001>>   \* 0x55d754f7c9ed6591
      [] epoch = 5 -> <<56112, 60165, 6425, 32540>>    \* 0xdb30eb0519197f1c
      [] epoch = 6 -> <<64472, 62046, 58832, 50600>>   \* 0xfbd8f25ee5d0c5a8
      [] epoch = 7 -> <<26164, 45245, 42238, 35451>>   \* 0x6634b0bda4fe8a7b

\* h as u32: the two low limbs
AsU32(h) == <<h[3], h[4]>>

\* u % n for a u32 u given as two limbs and 0 < n < 2^15
RemU32(u, n) == ((u[1] % n) * (65536 % n) + (u[2] % n)) % n

\* A faulty get_epoch_leader: the divisor is the number of keys known so far.
get_epoch_leader_by_known_keys(self, epoch) ==
    LET result == AsU32(DefaultHasherFinish(epoch))
    IN IF self.expected_peer_count = 0
       THEN [panic |-> TRUE, val |-> 0]
       ELSE [panic |-> FALSE, val |-> RemU32(result, Len(self.public_keys))]

\* fn get_epoch_leader(&self, epoch): the remainder panics on a zero divisor
get_epoch_leader(self, epoch) ==
    LET result == AsU32(DefaultHasherFinish(epoch))
    IN IF self.expected_peer_count = 0
       THEN [panic |-> TRUE, val |-> 0]
       ELSE [panic |-> FALSE, val |-> RemU32(result, self.expected_peer_count)]

---------------------------------------------------------------------------
(* Construction *)

Genesis == 0

\* BlockchainManager::new(): the tree holds genesis alone, which is notarized,
\* the tip of the local chain and final.
BlockchainManagerNew ==
    [tree |-> {Genesis}, notarized |-> {Genesis}, tip |-> Genesis,
     finalized |-> <<Genesis>>]

\* StreamletInstance::new(id, expected_peer_count, name) for instance i
New(i, an_id, count) ==
    [id |-> an_id,
     expected_peer_count |-> count,
     is_leader |-> FALSE,
     keypair |-> KeypairGenerate(i),
     blockchain_manager |-> BlockchainManagerNew,
     public_keys |-> <<KeypairGenerate(i).public>>]

\* What a harness remembers of its last call: the helper, whether it panicked,
\* the number or the boolean it returned, the instance called and the epoch.
NoRet ==
    [fn |-> "none", panic |-> FALSE, num |-> 0, flag |-> FALSE, arg |-> 0, epoch |-> 0]

NoMessage ==
    [payload |-> StringPayload(0), kind |-> "Test", nonce |-> 0, signatures |-> None]

\* The command line of a process that main did not start: the program alone
NoArgs == <<0>>

\* The example blockchain app is not running
NoApp == blocks = <<>> /\ init_rcv = "open" /\ response_rcv = 0

\* The ids the unit test gives its three instances, lib.rs:274-276
TestIds == <<0, 1, 3>>

---------------------------------------------------------------------------
(* The signing harness: three instances built with one expected_peer_count, *)
(* a block message signed by any of them, keys added to the first, which   *)
(* verifies (tests::test_streamlet_msg_signatures, lib.rs:272-316).        *)

InitInstances(count) ==
    /\ args = NoArgs
    /\ id = [i \in Instances |-> New(i, TestIds[i], count).id]
    /\ expected_peer_count =
           [i \in Instances |-> New(i, TestIds[i], count).expected_peer_count]
    /\ public_keys = [i \in Instances |-> New(i, TestIds[i], count).public_keys]
    /\ blockchain_manager =
           [i \in Instances |-> New(i, TestIds[i], count).blockchain_manager]
    /\ needs_init = [i \in Instances |-> TRUE]
    /\ recv_init = [i \in Instances |-> "open"]
    /\ halted = [i \in Instances |-> FALSE]
    /\ ret = NoRet
    /\ evt = None
    /\ calls = <<>>
    /\ delivered = {}
    /\ NoApp

\* The message of the unit test (lib.rs:291-296): a Vote for a block, with no
\* signature container, an empty one, or one that holds a signature the first
\* instance made over another block.
StaleSignature ==
    KeypairSign(KeypairGenerate(1),
                serialize_payload([NoMessage EXCEPT !.payload = BlockPayload(2)]))

InitSig ==
    /\ \E count \in 0..MaxPeerCount : InitInstances(count)
    /\ \E sigs \in {None, Some(<<>>), Some(<<StaleSignature>>)} :
           message = [payload |-> BlockPayload(1), kind |-> "Vote",
                      nonce |-> 0, signatures |-> sigs]

Running == ~ret.panic

LoopVars == <<blockchain_manager, needs_init, recv_init, halted, evt, calls, delivered>>

\* streamlet_i.sign_message(&mut message)
SignMessage(i) ==
    /\ Running
    /\ IsSome(message.signatures) => Len(Unwrap(message.signatures)) < MaxSigs
    /\ LET r == sign_message(Self(i), message)
       IN /\ message' = r.message
          /\ ret' = [NoRet EXCEPT !.fn = "sign_message", !.panic = r.panic, !.arg = i]
    /\ UNCHANGED <<args, AppVars, id, expected_peer_count, public_keys, LoopVars>>

\* message.nonce = v
SetNonce(v) ==
    /\ Running
    /\ v # message.nonce
    /\ message' = [message EXCEPT !.nonce = v]
    /\ ret' = NoRet
    /\ UNCHANGED <<args, AppVars, id, expected_peer_count, public_keys, LoopVars>>

\* message.kind = k
SetKind(k) ==
    /\ Running
    /\ k # message.kind
    /\ message' = [message EXCEPT !.kind = k]
    /\ ret' = NoRet
    /\ UNCHANGED <<args, AppVars, id, expected_peer_count, public_keys, LoopVars>>

\* streamlet1.add_public_key(&streamlet_j.get_public_key())
TestAddPublicKey(j) ==
    /\ Running
    /\ Len(public_keys[1]) < MaxKeys
    /\ public_keys' =
           [public_keys EXCEPT ![1] = add_public_key(Self(1), get_public_key(Self(j)))]
    /\ UNCHANGED <<args, AppVars, id, expected_peer_count, message, LoopVars>>

SigAddPublicKey(j) == TestAddPublicKey(j) /\ ret' = NoRet

\* streamlet1.verify_message(&message)
VerifyMessage ==
    /\ Running
    /\ LET r == verify_message(Self(1), message)
       IN ret' = [NoRet EXCEPT !.fn = "verify_message", !.panic = r.panic,
                                !.num = r.val, !.arg = 1]
    /\ UNCHANGED <<args, AppVars, id, expected_peer_count, public_keys, message, LoopVars>>

\* streamlet1.is_notarized(&message)
IsNotarized ==
    /\ Running
    /\ LET r == is_notarized(Self(1), message)
       IN ret' = [NoRet EXCEPT !.fn = "is_notarized", !.panic = r.panic,
                                !.flag = r.val, !.arg = 1]
    /\ UNCHANGED <<args, AppVars, id, expected_peer_count, public_keys, message, LoopVars>>

NextSig ==
    \/ \E i \in Instances : SignMessage(i)
    \/ \E v \in Nonces : SetNonce(v)
    \/ \E k \in {"Propose", "Vote"} : SetKind(k)
    \/ \E j \in Instances : SigAddPublicKey(j)
    \/ VerifyMessage
    \/ IsNotarized

SpecSig == InitSig /\ [][NextSig]_vars

---------------------------------------------------------------------------
(* Properties of the signing helpers, under SpecSig *)

\* The positions of the signatures of m that verify against a key self knows
ValidIndexes(self, m) ==
    {i \in 1..Len(Unwrap(m.signatures)) :
        \E j \in 1..Len(self.public_keys) :
            verify_signature(self, m, Unwrap(m.signatures)[i], self.public_keys[j])}

\* The valid signatures of m, each taken once
DistinctValid(self, m) == {Unwrap(m.signatures)[i] : i \in ValidIndexes(self, m)}

\* ceil((n + 1) / 2)
Quorum(n) == (n + 2) \div 2

\* C2: is_notarized returns true exactly when the message carries at least
\* ceil((n + 1) / 2) distinct valid signatures, n the expected validator count.
C2_QuorumThreshold ==
    (ret.fn = "is_notarized" /\ ~ret.panic)
        => (ret.flag <=> Cardinality(DistinctValid(Self(1), message))
                           >= Quorum(expected_peer_count[1]))

\* C3: verify_message counts a signer once, however often its signature over
\* the payload is attached.
C3_DuplicatesCountOnce ==
    (ret.fn = "verify_message" /\ ~ret.panic)
        => ret.num = Cardinality(DistinctValid(Self(1), message))

\* C4: on a message with a signature container verify_message returns the
\* number of attached signatures that verify against at least one known key,
\* each signature credited at most once.
C4_CountsValidSignatures ==
    (ret.fn = "verify_message" /\ ~ret.panic)
        => ret.num = Cardinality(ValidIndexes(Self(1), message))

\* The unit test's case: three instances signed, the first knows its own key
\* twice and that of the second, and counts two valid signatures.
C4_Witness ==
    /\ ret.fn = "verify_message"
    /\ ret.num = 2
    /\ IsSome(message.signatures)
    /\ Len(Unwrap(message.signatures)) = 3
    /\ {Unwrap(message.signatures)[i].key : i \in 1..3} = {1, 2, 3}
    /\ public_keys[1] = <<1, 2, 1>>

\* C6: a sign_message call on a message with a signature container appends
\* one signature over the serialized payload at the end of the container and
\* leaves the earlier signatures, the payload, the kind and the nonce alone.
C6_SignAppendsOne ==
    [][(ret'.fn = "sign_message" /\ ~ret'.panic) =>
          /\ IsSome(message.signatures)
          /\ IsSome(message'.signatures)
          /\ Len(Unwrap(message'.signatures)) = Len(Unwrap(message.signatures)) + 1
          /\ SubSeq(Unwrap(message'.signatures), 1, Len(Unwrap(message.signatures)))
                 = Unwrap(message.signatures)
          /\ Unwrap(message'.signatures)[Len(Unwrap(message'.signatures))]
                 = [key |-> get_public_key(Self(ret'.arg)),
                    bytes |-> <<message.payload.tag, message.payload.v>>]
          /\ message'.payload = message.payload
          /\ message'.kind = message.kind
          /\ message'.nonce = message.nonce]_vars

\* Three successive calls on an empty container, by the three instances in
\* turn, left exactly three signatures in the order of the calls.
C6_Witness ==
    /\ ret.fn = "sign_message"
    /\ ~ret.panic
    /\ ret.arg = 3
    /\ IsSome(message.signatures)
    /\ Len(Unwrap(message.signatures)) = 3
    /\ \A i \in 1..3 : Unwrap(message.signatures)[i].key = i

\* C7: while the payload is unchanged, a change of the kind or the nonce, and
\* a signature appended after it, leave the verdict of verify_signature on
\* every signature attached before the same for every key, and a change of
\* the kind or the nonce alone leaves the count of verify_message the same.
C7_SignaturesCoverPayloadOnly ==
    [][(message' # message /\ message'.payload = message.payload
          /\ IsSome(message.signatures) /\ IsSome(message'.signatures)) =>
          /\ \A i \in 1..Len(Unwrap(message.signatures)),
                pk \in {get_public_key(Self(k)) : k \in Instances} :
                i <= Len(Unwrap(message'.signatures)) =>
                   (verify_signature(Self(1), message, Unwrap(message.signatures)[i], pk)
                    <=> verify_signature(Self(1), message', Unwrap(message'.signatures)[i], pk))
          /\ (message'.signatures = message.signatures /\ public_keys' = public_keys)
                => verify_message(Self(1), message').val
                     = verify_message(Self(1), message).val]_vars

\* A message signed by the first instance, then given another nonce and kind,
\* then signed by the second: both signatures count.
C7_Witness ==
    /\ message.nonce = 1
    /\ message.kind = "Propose"
    /\ IsSome(message.signatures)
    /\ Len(Unwrap(message.signatures)) = 2
    /\ Unwrap(message.signatures)[1].key = 1
    /\ Unwrap(message.signatures)[2].key = 2
    /\ public_keys[1] = <<1, 2>>
    /\ ret.fn = "verify_message"
    /\ ret.num = 2

\* The key is in the list
Knows(keys, pk) == \E j \in 1..Len(keys) : keys[j] = pk

\* C24: a step that appends to the public-key list of the first instance a
\* key the list holds already leaves what verify_message and is_notarized
\* return for the message as it was: the count, the verdict, and the panic
\* on a message without a signature container.
C24_DuplicateKeysChangeNothing ==
    [][(\E j \in Instances :
           /\ Knows(public_keys[1], get_public_key(Self(j)))
           /\ public_keys'[1] = Append(public_keys[1], get_public_key(Self(j)))) =>
          LET before == Self(1)
              after == [Self(1) EXCEPT !.public_keys = public_keys'[1]]
          IN /\ verify_message(after, message) = verify_message(before, message)
             /\ is_notarized(after, message) = is_notarized(before, message)]_vars

\* The first instance, which holds its own key twice and the key of the
\* second, counted one valid signature each for the first and the
\* second signer.
C24_Witness ==
    /\ public_keys[1] = <<1, 1, 2>>
    /\ IsSome(message.signatures)
    /\ Len(Unwrap(message.signatures)) = 2
    /\ Unwrap(message.signatures)[1].key = 1
    /\ Unwrap(message.signatures)[2].key = 2
    /\ ret.fn = "verify_message"
    /\ ret.num = 2

\* The number of signatures of m that verify against a key self knows; none
\* on a message without a signature container
ValidCount(self, m) ==
    IF IsSome(m.signatures) THEN Cardinality(ValidIndexes(self, m)) ELSE 0

\* C25: verify_message and is_notarized return on every message and never
\* panic; verify_message returns the number of attached signatures that
\* verify against a known key, 0 when there is no signature container or
\* none verifies, and is_notarized the verdict of that number.
C25_VerifyIsTotal ==
    ret.fn \in {"verify_message", "is_notarized"} =>
        /\ ~ret.panic
        /\ ret.fn = "verify_message" => ret.num = ValidCount(Self(1), message)
        /\ ret.fn = "is_notarized" =>
               (ret.flag <=> ValidCount(Self(1), message)
                                >= expected_peer_count[1] \div 2)

---------------------------------------------------------------------------
(* The signature harness: an instance signs a byte payload, the payload may *)
(* then be replaced, and the signature is verified against the key of any  *)
(* instance (tests::test_streamlet_signatures, lib.rs:262-270).            *)

InitCrypto ==
    /\ InitInstances(1)
    /\ \E b \in 1..MaxPayload :
           message = [payload |-> BlockPayload(b), kind |-> "Vote", nonce |-> 0,
                      signatures |-> Some(<<>>)]

\* signature = streamlet_i.sign(bytes), kept in the container
CryptoSign(i) ==
    /\ message.signatures = Some(<<>>)
    /\ message' = [message EXCEPT !.signatures =
                       Some(<<sign(Self(i), serialize_payload(message))>>)]
    /\ ret' = NoRet
    /\ UNCHANGED <<args, AppVars, id, expected_peer_count, public_keys, LoopVars>>

\* message.payload = another payload
CryptoSetPayload(b) ==
    /\ b # message.payload.v
    /\ message' = [message EXCEPT !.payload = BlockPayload(b)]
    /\ ret' = NoRet
    /\ UNCHANGED <<args, AppVars, id, expected_peer_count, public_keys, LoopVars>>

\* streamlet_j.verify_signature(&message, &signature, &streamlet_j.get_public_key())
CryptoVerify(j) ==
    /\ message.signatures # Some(<<>>)
    /\ ret' = [NoRet EXCEPT
                 !.fn = "verify_signature",
                 !.flag = verify_signature(Self(j), message, Unwrap(message.signatures)[1],
                                           get_public_key(Self(j))),
                 !.arg = j]
    /\ UNCHANGED <<args, AppVars, id, expected_peer_count, public_keys, message, LoopVars>>

NextCrypto ==
    \/ \E i \in Instances : CryptoSign(i)
    \/ \E b \in 1..MaxPayload : CryptoSetPayload(b)
    \/ \E j \in Instances : CryptoVerify(j)

SpecCrypto == InitCrypto /\ [][NextCrypto]_vars

\* C8: a signature made by an instance over a payload verifies against the
\* public key of that instance over that payload, and verification against
\* another instance's key or over another payload returns false; it never
\* panics.
C8_SignatureIntegrity ==
    ret.fn = "verify_signature" =>
        /\ ~ret.panic
        /\ ret.flag <=>
              Unwrap(message.signatures)[1]
                  = [key |-> get_public_key(Self(ret.arg)),
                     bytes |-> <<message.payload.tag, message.payload.v>>]

\* The first instance signed payload 1, the payload became 2, and verification
\* against the first instance's key returned false.
C8_Witness ==
    /\ ret.fn = "verify_signature"
    /\ ret.arg = 1
    /\ ~ret.flag
    /\ Unwrap(message.signatures)[1] = [key |-> 1, bytes |-> <<"Block", 1>>]
    /\ message.payload = BlockPayload(2)

---------------------------------------------------------------------------
(* The leader harness: three instances built with one expected_peer_count; *)
(* keys are added to the first; any of them is asked for an epoch's leader.*)

InitLeader ==
    /\ \E count \in 0..MaxPeerCount : InitInstances(count)
    /\ message = NoMessage

LeaderAddPublicKey(j) == TestAddPublicKey(j) /\ UNCHANGED ret

\* streamlet_i.get_epoch_leader(epoch)
GetEpochLeader(i, epoch) ==
    /\ Running
    /\ LET r == get_epoch_leader(Self(i), epoch)
       IN ret' = [NoRet EXCEPT !.fn = "get_epoch_leader", !.panic = r.panic,
                                !.num = r.val, !.arg = i, !.epoch = epoch]
    /\ UNCHANGED <<args, AppVars, id, expected_peer_count, public_keys, message, LoopVars>>

NextLeader ==
    \/ \E j \in Instances : LeaderAddPublicKey(j)
    \/ \E i \in Instances, epoch \in 0..MaxEpoch : GetEpochLeader(i, epoch)

SpecLeader == InitLeader /\ [][NextLeader]_vars

\* C9: get_epoch_leader returns an index in [0, n) and never fails, for every
\* epoch and every expected validator count n an instance can be built with.
C9_LeaderInRange ==
    ret.fn = "get_epoch_leader" =>
        /\ ~ret.panic
        /\ ret.num >= 0
        /\ ret.num < expected_peer_count[ret.arg]

\* C10: what get_epoch_leader returned for an epoch is what it returns for
\* that epoch on every instance built with the same expected validator
\* count, whatever the instance's id, keypair and known keys, then and later.
C10_LeaderDeterministic ==
    ret.fn = "get_epoch_leader" =>
        \A j \in Instances :
            expected_peer_count[j] = expected_peer_count[ret.arg] =>
                /\ get_epoch_leader(Self(j), ret.epoch).panic = ret.panic
                /\ get_epoch_leader(Self(j), ret.epoch).val = ret.num

\* The second instance returned leader 2 of 4 for epoch 2, and the first has
\* been given two more keys.
C10_Witness ==
    /\ ret.fn = "get_epoch_leader"
    /\ ~ret.panic
    /\ ret.arg = 2
    /\ ret.epoch = 2
    /\ expected_peer_count[2] = 4
    /\ ret.num = 2
    /\ public_keys[1] = <<1, 2, 3>>
    /\ id[1] # id[2]

---------------------------------------------------------------------------
(* The node: a process started by main (main.rs:8-36) that runs            *)
(* StreamletInstance::run (lib.rs:71-167).  The transport hands it any     *)
(* message of Wire, in any order and any number of times.  Spec is one     *)
(* node, together with a block message held fixed, about which the         *)
(* helpers can be asked at any time; SpecNet is a deployment of NumNodes   *)
(* nodes started with the same command line.                               *)

\* main.rs:12-24: args[1] is the program, args[2] the host count if given
MainPeerCount(argv) ==
    IF Len(argv) >= 2 THEN argv[2] - 1 ELSE DEFAULT_NUM_HOSTS - 1

Args == {<<0>>} \cup {<<0, num_hosts>> : num_hosts \in 1..MaxHosts}

\* main.rs:33, then run up to its loop (lib.rs:71-93), on every node of S
InitRun(S) ==
    /\ \E argv \in Args :
         /\ args = argv
         /\ id = [n \in S |-> New(n, 0, MainPeerCount(argv)).id]
         /\ expected_peer_count =
                [n \in S |-> New(n, 0, MainPeerCount(argv)).expected_peer_count]
    /\ public_keys = [n \in S |-> New(n, 0, 0).public_keys]
    /\ blockchain_manager = [n \in S |-> New(n, 0, 0).blockchain_manager]
    /\ needs_init = [n \in S |-> TRUE]
    /\ recv_init = [n \in S |-> "open"]
    /\ halted = [n \in S |-> FALSE]
    /\ ret = NoRet
    /\ evt = None
    /\ calls = <<>>
    /\ delivered = {}
    /\ NoApp

\* What the transport can deliver: advertisements of the keys of nodes 1 and
\* 2, each unsigned or carrying a signature of node 2 over the advertisement
\* of key 2 (which authenticates that one alone), a test line, a block
\* proposed and voted for with the signature of node 1 or of nodes 1 and 2,
\* and a second block proposed by node 2.
WireMessages ==
    {[payload |-> PeerAdPayload(pk), kind |-> "PeerAdvertisement", nonce |-> 0,
      signatures |-> sigs] :
        pk \in {1, 2},
        sigs \in {None,
                  Some(<<KeypairSign(KeypairGenerate(2), <<"PeerAdvertisement", 2>>)>>)}}
    \cup {[payload |-> StringPayload(<<"h", "i">>), kind |-> "Test", nonce |-> 1,
           signatures |-> None]}
    \cup {[payload |-> BlockPayload(1), kind |-> k, nonce |-> 0,
           signatures |-> Some(sigs)] :
            k \in {"Propose", "Vote"},
            sigs \in {<<KeypairSign(KeypairGenerate(1), <<"Block", 1>>)>>,
                      <<KeypairSign(KeypairGenerate(1), <<"Block", 1>>),
                        KeypairSign(KeypairGenerate(2), <<"Block", 1>>)>>}}
    \cup {[payload |-> BlockPayload(2), kind |-> "Propose", nonce |-> 0,
           signatures |-> Some(<<KeypairSign(KeypairGenerate(2), <<"Block", 2>>)>>)]}

\* Byte strings that encode no message: nothing, and a cut envelope
Malformed == {<<>>, <<"Vote", 0>>}

Wire == {serialize(m) : m \in WireMessages} \cup Malformed

\* The lines a user types, as sequences of characters
EndDiscovery == <<"e", "n", "d", " ", "d", "i", "s", "c", "o", "v", "e", "r", "y">>
ED == <<"e", " ", "d">>
Lines == {EndDiscovery, ED, <<"e", " ", "d", "!">>, <<"e", "n", "d">>, <<"h", "i">>}

starts_with(line, prefix) ==
    Len(line) >= Len(prefix) /\ SubSeq(line, 1, Len(prefix)) = prefix

HarnessVars == <<message, ret>>

\* A faulty timer task: besides sending the trigger it clears the flag of the
\* loop itself.
InitTimerSharingFlag(n) ==
    /\ ~halted[n]
    /\ recv_init[n] = "open"
    /\ recv_init' = [recv_init EXCEPT ![n] = "sent"]
    /\ needs_init' = [needs_init EXCEPT ![n] = FALSE]
    /\ UNCHANGED <<args, AppVars, id, expected_peer_count, public_keys, blockchain_manager,
                   halted, HarnessVars>>

\* The spawned task: sleep one second, then trigger_init.send(0), lib.rs:87-91
InitTimer(n) ==
    /\ ~halted[n]
    /\ recv_init[n] = "open"
    /\ recv_init' = [recv_init EXCEPT ![n] = "sent"]
    /\ UNCHANGED <<args, AppVars, id, expected_peer_count, public_keys, blockchain_manager,
                   needs_init, halted, HarnessVars>>

\* The select branch of recv_init.recv() (lib.rs:109-117), ready when the
\* trigger is in the channel or the channel is closed and empty, and the
\* DoInit handler (lib.rs:161-163): peers.start_init changes nothing modelled.
SelectInit(n) ==
    /\ ~halted[n]
    /\ recv_init[n] \in {"sent", "closed"}
    /\ recv_init' = [recv_init EXCEPT ![n] = "closed"]
    /\ needs_init' = [needs_init EXCEPT ![n] = FALSE]
    /\ UNCHANGED <<args, AppVars, id, expected_peer_count, public_keys, blockchain_manager,
                   halted, HarnessVars>>

\* The select branch of stdin.next_line() and the UserInput handler
\* (lib.rs:98-101, 128-146).  published tells whether gossipsub took the test
\* message: broadcast_message panics when it did not (network.rs:124-132).
UserInput(n, line, published) ==
    /\ ~halted[n]
    /\ IF starts_with(line, EndDiscovery) \/ starts_with(line, ED)
       THEN UNCHANGED halted
       ELSE halted' = [halted EXCEPT ![n] = ~published]
    /\ UNCHANGED <<args, AppVars, id, expected_peer_count, public_keys, blockchain_manager,
                   needs_init, recv_init, HarnessVars>>

\* stdin at end of file: expect("Can't read from stdin") panics, lib.rs:99
UserInputEof(n) ==
    /\ ~halted[n]
    /\ halted' = [halted EXCEPT ![n] = TRUE]
    /\ UNCHANGED <<args, AppVars, id, expected_peer_count, public_keys, blockchain_manager,
                   needs_init, recv_init, HarnessVars>>

\* A faulty NetworkInput handler: a block that arrives is taken as final at
\* once, without a quorum of votes.
NetworkInputFinalizing(n, bytes) ==
    /\ ~halted[n]
    /\ LET r == deserialize(bytes)
           m == r.message
       IN IF r.panic
          THEN /\ halted' = [halted EXCEPT ![n] = TRUE]
               /\ UNCHANGED <<public_keys, blockchain_manager>>
          ELSE /\ IF m.payload.tag = "PeerAdvertisement"
                  THEN /\ Len(public_keys[n]) < 1 + MaxAds
                       /\ public_keys' =
                              [public_keys EXCEPT
                                  ![n] = add_public_key(Self(n), m.payload.v)]
                  ELSE UNCHANGED public_keys
               /\ IF m.payload.tag = "Block" /\ Len(blockchain_manager[n].finalized) = 1
                  THEN blockchain_manager' =
                           [blockchain_manager EXCEPT
                               ![n].tree = @ \cup {m.payload.v},
                               ![n].finalized = Append(@, m.payload.v)]
                  ELSE UNCHANGED blockchain_manager
               /\ UNCHANGED halted
    /\ UNCHANGED <<args, AppVars, id, expected_peer_count, needs_init, recv_init, HarnessVars>>

\* The select branch of receiver.recv() and the NetworkInput handler
\* (lib.rs:104-106, 147-160)
NetworkInput(n, bytes) ==
    /\ ~halted[n]
    /\ LET r == deserialize(bytes)
           m == r.message
       IN IF r.panic
          THEN /\ halted' = [halted EXCEPT ![n] = TRUE]
               /\ UNCHANGED public_keys
          ELSE /\ IF m.payload.tag = "PeerAdvertisement"
                  THEN /\ Len(public_keys[n]) < 1 + MaxAds
                       /\ public_keys' =
                              [public_keys EXCEPT
                                  ![n] = add_public_key(Self(n), m.payload.v)]
                  ELSE UNCHANGED public_keys
               /\ UNCHANGED halted
    /\ UNCHANGED <<args, AppVars, id, expected_peer_count, blockchain_manager, needs_init,
                   recv_init, HarnessVars>>

\* The select branch of net_stack.clear_unhandled_event(), lib.rs:119-122
ClearUnhandledEvent(n) ==
    /\ ~halted[n]
    /\ UNCHANGED <<args, AppVars, id, expected_peer_count, public_keys, blockchain_manager,
                   needs_init, recv_init, halted, HarnessVars>>

---------------------------------------------------------------------------
(* What a step of a node shows to the outside: the event its select yielded *)
(* (enum EventType, lib.rs:34-38) and the calls its handler made.          *)

UserInputEvent(line) == [type |-> "UserInput", data |-> line]
NetworkInputEvent(bytes) == [type |-> "NetworkInput", data |-> bytes]
DoInitEvent == [type |-> "DoInit", data |-> <<>>]

Call(fn, arg) == [fn |-> fn, arg |-> arg]

\* A faulty test message: it is built with an empty signature container.
TestMessageWithContainer(line, rand) ==
    [payload |-> StringPayload(line), kind |-> "Test", nonce |-> rand,
     signatures |-> Some(<<>>)]

\* The Message the UserInput handler builds from a line, lib.rs:134-140
TestMessage(line, rand) ==
    [payload |-> StringPayload(line), kind |-> "Test", nonce |-> rand,
     signatures |-> None]

\* The calls of the UserInput handler, lib.rs:129-145
UserInputCalls(line, rand) ==
    IF starts_with(line, EndDiscovery) \/ starts_with(line, ED)
    THEN <<Call("send_end_init", <<>>)>>
    ELSE <<Call("broadcast_message", serialize(TestMessage(line, rand)))>>

\* The calls of the NetworkInput handler on peers and net_stack, lib.rs:148-158
NetworkInputCalls(bytes) ==
    LET r == deserialize(bytes)
    IN IF ~r.panic /\ r.message.payload.tag = "PeerAdvertisement"
       THEN <<Call("recv_advertisement", <<r.message.payload.v>>)>>
       ELSE <<>>

\* The call of the DoInit handler, lib.rs:162
DoInitCalls(self) == <<Call("start_init", <<self.expected_peer_count>>)>>

\* A step of node n with its event and its calls kept: the timer task's send,
\* or one iteration of the loop (lib.rs:94-166).
Iteration(n) ==
    \/ /\ InitTimer(n)
       /\ evt' = None
       /\ calls' = <<Call("trigger_init.send", <<0>>)>>
       /\ UNCHANGED delivered
    \/ /\ SelectInit(n)
       /\ evt' = IF needs_init[n] THEN Some(DoInitEvent) ELSE None
       /\ calls' = IF needs_init[n] THEN DoInitCalls(Self(n)) ELSE <<>>
       /\ UNCHANGED delivered
    \/ \E line \in Lines, rand \in Nonces, published \in BOOLEAN :
          /\ UserInput(n, line, published)
          /\ evt' = Some(UserInputEvent(line))
          /\ calls' = UserInputCalls(line, rand)
          /\ UNCHANGED delivered
    \/ /\ UserInputEof(n)
       /\ evt' = None
       /\ calls' = <<>>
       /\ UNCHANGED delivered
    \/ \E bytes \in Wire :
          /\ NetworkInput(n, bytes)
          /\ evt' = Some(NetworkInputEvent(bytes))
          /\ calls' = NetworkInputCalls(bytes)
          /\ UNCHANGED delivered
    \/ /\ ClearUnhandledEvent(n)
       /\ evt' = None
       /\ calls' = <<>>
       /\ UNCHANGED delivered

\* The block messages a caller can ask about: a vote for block 1 with up to
\* MaxSigs signatures of the keys 1 and 2.
RECURSIVE SeqsUpTo(_, _)
SeqsUpTo(S, k) ==
    IF k = 0 THEN {<<>>}
    ELSE LET shorter == SeqsUpTo(S, k - 1)
         IN shorter \cup {Append(q, x) : q \in shorter, x \in S}

ObservedMessages ==
    {[payload |-> BlockPayload(1), kind |-> "Vote", nonce |-> 0,
      signatures |-> Some(sigs)] :
        sigs \in SeqsUpTo({KeypairSign(KeypairGenerate(k), <<"Block", 1>>) : k \in {1, 2}},
                          MaxSigs)}

Init == InitRun({1}) /\ message \in ObservedMessages

Next == Iteration(1)

Spec == Init /\ [][Next]_vars

InitNet == InitRun(Nodes) /\ message = NoMessage

\* The nodes of a deployment take their steps one at a time; what a step
\* shows to the outside is not kept.
NextNet ==
    \E n \in Nodes :
        \/ InitTimer(n) /\ UNCHANGED <<evt, calls, delivered>>
        \/ SelectInit(n) /\ UNCHANGED <<evt, calls, delivered>>
        \/ /\ \E line \in Lines, published \in BOOLEAN : UserInput(n, line, published)
           /\ UNCHANGED <<evt, calls, delivered>>
        \/ UserInputEof(n) /\ UNCHANGED <<evt, calls, delivered>>
        \/ /\ \E bytes \in Wire : NetworkInput(n, bytes)
           /\ UNCHANGED <<evt, calls, delivered>>
        \/ ClearUnhandledEvent(n) /\ UNCHANGED <<evt, calls, delivered>>

SpecNet == InitNet /\ [][NextNet]_vars

---------------------------------------------------------------------------
(* Properties of the deployment, under SpecNet *)

IsPrefix(s, t) == Len(s) <= Len(t) /\ SubSeq(t, 1, Len(s)) = s

FinalizedChain(n) == blockchain_manager[n].finalized

---------------------------------------------------------------------------
(* Properties of one node, under Spec *)

\* C5: for a fixed block message, once is_notarized returns true on a node it
\* returns true after every later event the node handles.
C5_NotarizedStaysNotarized ==
    [][is_notarized(Self(1), message).val /\ message' = message
          => is_notarized(Self(1), message).val']_vars

\* The node, started for three hosts, has handled the init event and the
\* advertisement of key 2, and holds a message signed by 1 and 2 notarized.
C5_Witness ==
    /\ expected_peer_count[1] = 2
    /\ ~needs_init[1]
    /\ public_keys[1] = <<1, 2>>
    /\ Len(Unwrap(message.signatures)) = 2
    /\ verify_message(Self(1), message).val = 2
    /\ is_notarized(Self(1), message).val

\* The event a step handled is a network message
HandledNetworkInput(e) == IsSome(e) /\ Unwrap(e).type = "NetworkInput"

C12_SignWithoutContainerIsFatal ==
    /\ [](\A bytes \in Wire :
             LET r == deserialize(bytes)
             IN (~r.panic /\ ~IsSome(r.message.signatures)) =>
                    sign_message(Self(1), r.message)
                        = [panic |-> TRUE, message |-> r.message])
    /\ [][(HandledNetworkInput(evt') /\ ~deserialize(Unwrap(evt').data).panic)
             => ~halted'[1]]_vars

\* The node has handled the unsigned advertisement of key 2, a message
\* without a signature container, and runs on.
C12_Witness ==
    /\ HandledNetworkInput(evt)
    /\ ~deserialize(Unwrap(evt).data).panic
    /\ ~IsSome(deserialize(Unwrap(evt).data).message.signatures)
    /\ public_keys[1] = <<1, 2>>
    /\ ~halted[1]

\* An advertisement is authenticated when it carries a signature over its
\* payload that verifies against the key it advertises.
Authenticated(self, m) ==
    /\ IsSome(m.signatures)
    /\ \E i \in 1..Len(Unwrap(m.signatures)) :
           verify_signature(self, m, Unwrap(m.signatures)[i], m.payload.v)

\* C13: the validator set of the node changes only in a step that handles a
\* network message whose payload is an authenticated PeerAdvertisement; an
\* unsigned advertisement, one that fails authentication, any other payload,
\* user input, the init event and transport events add no key.
C13_KeysOnlyFromAuthenticatedAds ==
    [][public_keys'[1] # public_keys[1] =>
          /\ HandledNetworkInput(evt')
          /\ ~deserialize(Unwrap(evt').data).panic
          /\ deserialize(Unwrap(evt').data).message.payload.tag = "PeerAdvertisement"
          /\ Authenticated(Self(1), deserialize(Unwrap(evt').data).message)]_vars

\* C14: the public-key list of the node always holds the node's own key, and
\* every step leaves the list as it was or longer with the old list as its
\* prefix: no key is removed or replaced.
C14_ValidatorSetOnlyGrows ==
    /\ [](\E j \in 1..Len(public_keys[1]) :
             public_keys[1][j] = get_public_key(Self(1)))
    /\ [][IsPrefix(public_keys[1], public_keys'[1])]_vars

\* The node added key 2, then handled the init event and a line of user
\* input: both keys are still there.
C14_Witness ==
    /\ public_keys[1] = <<1, 2>>
    /\ ~needs_init[1]
    /\ IsSome(evt)
    /\ Unwrap(evt).type = "UserInput"
    /\ ~halted[1]

\* The step is the timer task's: it sent the trigger
TimerStep == calls' = <<Call("trigger_init.send", <<0>>)>>

\* C19 as stated: every iteration of the loop that completes handles exactly
\* one event, a user input line, a network message or init.
C19_ExactlyOneEventPerIteration ==
    [][(~TimerStep /\ ~halted'[1]) => IsSome(evt')]_vars

\* C19, amended: an iteration handles at most one event, and every change of
\* the validator set, the block tree and needs_init is made by the handler
\* of the one event of its iteration: init clears needs_init, a network
\* message appends the one key it advertises, and a step without an event,
\* the timer task's included, changes none of them.
C19_AtMostOneEventPerIteration ==
    [][/\ Len(calls') <= 1
       /\ TimerStep =>
              /\ evt' = None
              /\ public_keys' = public_keys
              /\ blockchain_manager' = blockchain_manager
              /\ needs_init' = needs_init
       /\ ~IsSome(evt') =>
              /\ public_keys' = public_keys
              /\ blockchain_manager' = blockchain_manager
              /\ needs_init' = needs_init
       /\ needs_init' # needs_init =>
              /\ evt' = Some(DoInitEvent)
              /\ public_keys' = public_keys
       /\ public_keys' # public_keys =>
              /\ HandledNetworkInput(evt')
              /\ public_keys'[1] =
                     Append(public_keys[1],
                            deserialize(Unwrap(evt').data).message.payload.v)
              /\ needs_init' = needs_init
       /\ blockchain_manager' = blockchain_manager]_vars

\* The node handled init, then the advertisement of key 2, one after the
\* other: the init channel is closed and the key is in the list.
C19_Witness ==
    /\ HandledNetworkInput(evt)
    /\ calls = <<Call("recv_advertisement", <<2>>)>>
    /\ public_keys[1] = <<1, 2>>
    /\ ~needs_init[1]
    /\ recv_init[1] = "closed"

\* The line has the characters of the command at its start
BeginsWith(line, command) ==
    /\ Len(line) >= Len(command)
    /\ \A i \in 1..Len(command) : line[i] = command[i]

\* C20: the step that handles a line of user input makes exactly one call:
\* for a line that begins with "end discovery" or "e d" it signals the end
\* of peer discovery and broadcasts nothing; for any other line it hands to
\* broadcast_message one Test message whose payload is the line and which
\* has no signature container.  It changes neither the validator set nor
\* the block tree.
C20_UserInputMapsToOneAction ==
    [][(IsSome(evt') /\ Unwrap(evt').type = "UserInput") =>
          /\ Len(calls') = 1
          /\ IF \/ BeginsWith(Unwrap(evt').data, EndDiscovery)
                \/ BeginsWith(Unwrap(evt').data, ED)
             THEN calls'[1] = Call("send_end_init", <<>>)
             ELSE /\ calls'[1].fn = "broadcast_message"
                  /\ ~deserialize(calls'[1].arg).panic
                  /\ deserialize(calls'[1].arg).message.kind = "Test"
                  /\ deserialize(calls'[1].arg).message.payload
                         = StringPayload(Unwrap(evt').data)
                  /\ deserialize(calls'[1].arg).message.signatures = None
          /\ public_keys' = public_keys
          /\ blockchain_manager' = blockchain_manager]_vars

\* The node, which knows key 2, handled the line "e d!": it signalled the end
\* of discovery and runs on with its keys.
C20_Witness ==
    /\ evt = Some(UserInputEvent(<<"e", " ", "d", "!">>))
    /\ calls = <<Call("send_end_init", <<>>)>>
    /\ public_keys[1] = <<1, 2>>
    /\ ~halted[1]

\* The step handed a message to net_stack.broadcast_message
Broadcast(c) == Len(c) = 1 /\ c[1].fn = "broadcast_message"

\* C21: the step that hands a message to broadcast_message leaves the node
\* running, whether or not the transport could publish the message, and
\* leaves the validator set and the block tree as they were.
C21_BroadcastIsBestEffort ==
    [][Broadcast(calls') =>
          /\ ~halted'[1]
          /\ public_keys' = public_keys
          /\ blockchain_manager' = blockchain_manager]_vars

---------------------------------------------------------------------------
(* The loop under fair scheduling: the timer task, once its second has     *)
(* passed, sends its trigger, and select!, which polls its branches in a   *)
(* random order, does not pass over the init branch for ever while it is   *)
(* ready.                                                                  *)

InitLoop == InitRun({1}) /\ message = NoMessage

\* The steps of node n that are the timer task's send and the init branch
TimerFires(n) == InitTimer(n) /\ Iteration(n)
InitBranch(n) == SelectInit(n) /\ Iteration(n)

SpecInit ==
    InitLoop /\ [][Next]_vars /\ WF_vars(TimerFires(1)) /\ WF_vars(InitBranch(1))

\* C23: a step handles DoInit only while needs_init is set, clears it and
\* calls peers.start_init with the expected peer count; needs_init, once
\* cleared, stays cleared, so DoInit is handled at most once; and once the
\* timer has sent its trigger, DoInit is eventually handled.
C23_InitOnceAndEventually ==
    /\ [][evt' = Some(DoInitEvent) =>
             /\ needs_init[1]
             /\ ~needs_init'[1]
             /\ calls' = <<Call("start_init", <<expected_peer_count[1]>>)>>]_vars
    /\ [][~needs_init[1] => ~needs_init'[1]]_vars
    /\ (recv_init[1] = "sent") ~> (evt = Some(DoInitEvent))

---------------------------------------------------------------------------
(* Startup: main parses the command line, builds the instance and runs it  *)
(* (main.rs:8-36).  SpecMain is one node started with any host count from  *)
(* 0, or with none.                                                        *)

\* usize::MAX, what 0 - 1 wraps to in a build without overflow checks.  It
\* stands for 2^64 - 1, which is beyond the integers of the model's
\* arithmetic: the largest of those takes its place.
UsizeMax == 2147483647

\* main.rs:13-24: the outcomes of the computation of expected_peer_count.
\* num_hosts - 1 on a usize of 0 panics in a build with overflow checks and
\* wraps in one without.
Main(argv) ==
    IF Len(argv) >= 2
    THEN IF argv[2] >= 1
         THEN {[panic |-> FALSE, expected_peer_count |-> argv[2] - 1]}
         ELSE {[panic |-> TRUE, expected_peer_count |-> 0],
               [panic |-> FALSE, expected_peer_count |-> UsizeMax]}
    ELSE {[panic |-> FALSE, expected_peer_count |-> DEFAULT_NUM_HOSTS - 1]}

ArgsMain == {<<0>>} \cup {<<0, num_hosts>> : num_hosts \in 0..MaxHosts}

\* main up to the loop of run; after a panic in main no instance exists
InitMain ==
    /\ \E argv \in ArgsMain : \E r \in Main(argv) :
         /\ args = argv
         /\ id = [n \in {1} |-> 0]
         /\ expected_peer_count = [n \in {1} |-> r.expected_peer_count]
         /\ public_keys =
                [n \in {1} |->
                    IF r.panic THEN <<>>
                    ELSE New(n, 0, r.expected_peer_count).public_keys]
         /\ halted = [n \in {1} |-> r.panic]
    /\ blockchain_manager = [n \in {1} |-> New(n, 0, 0).blockchain_manager]
    /\ needs_init = [n \in {1} |-> TRUE]
    /\ recv_init = [n \in {1} |-> "open"]
    /\ message = NoMessage
    /\ ret = NoRet
    /\ evt = None
    /\ calls = <<>>
    /\ delivered = {}
    /\ NoApp

SpecMain == InitMain /\ [][Next]_vars

\* The expected total validator count of a command line: its first argument,
\* or the default
HostCount(argv) == IF Len(argv) >= 2 THEN argv[2] ELSE DEFAULT_NUM_HOSTS

\* C22: the node was started, that is its instance was built with its own
\* key, and the validator count the instance uses as the divisor of the
\* leader election and in the quorum threshold is the host count of the
\* command line, or 2 when the command line has none.
C22_ValidatorCountIsHostCount ==
    /\ Len(public_keys[1]) >= 1
    /\ Self(1).expected_peer_count = HostCount(args)

---------------------------------------------------------------------------
(* The end-to-end scenario of four validators: a node built for four       *)
(* validators that has learned the keys of the other three, to which the   *)
(* transport delivers, in any order and any number of times, the proposals *)
(* and the votes of three blocks B1, B2, B3, each proposed in the epoch of *)
(* its number on the block before it.                                      *)

\* Block { epoch, parent_hash, hash }: a block is named by its hash.  The
\* blocks 1, 2, 3 are the chain B1, B2, B3, block b of epoch b on block
\* b - 1, block 0 being genesis; block 3 + k competes with block k: it has
\* the same epoch and the same parent.
BlockEpoch(b) == IF b <= 3 THEN b ELSE b - 3
BlockParent(b) == IF b <= 3 THEN b - 1 ELSE b - 4

\* The key of the validator that leads an epoch among four: validators are
\* numbered from 0 (lib.rs:244) and validator i holds key i + 1.
LeaderKey(epoch) == get_epoch_leader(New(1, 0, 4), epoch).val + 1

\* The Propose message of block b: signed by the leader of its epoch
ProposeOf(b) ==
    [payload |-> BlockPayload(b), kind |-> "Propose", nonce |-> 0,
     signatures |->
         Some(<<KeypairSign(KeypairGenerate(LeaderKey(BlockEpoch(b))),
                            serialize_payload([NoMessage EXCEPT
                                                  !.payload = BlockPayload(b)]))>>)]

\* The votes for block b of the validators with keys 1, 2 and 3, gathered in
\* one Vote message
VotesOf(b) ==
    [payload |-> BlockPayload(b), kind |-> "Vote", nonce |-> 0,
     signatures |->
         Some([k \in 1..3 |->
                  KeypairSign(KeypairGenerate(k),
                              serialize_payload([NoMessage EXCEPT
                                                    !.payload = BlockPayload(b)]))])]

ScenarioWire == {serialize(ProposeOf(b)) : b \in 1..3} \cup {serialize(VotesOf(b)) : b \in 1..3}

\* main with a host count of five, that is new(0, 4, name) (main.rs:20, 33),
\* then the advertisements of the keys 2, 3 and 4 handled
\* and the init event done
InitE2E ==
    /\ args = <<0, 5>>
    /\ id = [n \in {1} |-> New(n, 0, 4).id]
    /\ expected_peer_count = [n \in {1} |-> New(n, 0, 4).expected_peer_count]
    /\ public_keys =
           [n \in {1} |->
               LET zero == New(n, 0, 4)
                   one == [zero EXCEPT !.public_keys = add_public_key(zero, 2)]
                   two == [one EXCEPT !.public_keys = add_public_key(one, 3)]
               IN add_public_key(two, 4)]
    /\ blockchain_manager = [n \in {1} |-> New(n, 0, 4).blockchain_manager]
    /\ needs_init = [n \in {1} |-> FALSE]
    /\ recv_init = [n \in {1} |-> "closed"]
    /\ halted = [n \in {1} |-> FALSE]
    /\ message = NoMessage
    /\ ret = NoRet
    /\ evt = None
    /\ calls = <<>>
    /\ delivered = {}
    /\ NoApp

\* The transport delivers bytes to node n, which handles them (lib.rs:104-106,
\* 147-160)
Deliver(n, bytes) ==
    /\ NetworkInput(n, bytes)
    /\ evt' = Some(NetworkInputEvent(bytes))
    /\ calls' = NetworkInputCalls(bytes)
    /\ delivered' = delivered \cup {bytes}

NextE2E == \E bytes \in ScenarioWire : Deliver(1, bytes)

SpecE2E == InitE2E /\ [][NextE2E]_vars

\* Synchronous delivery: every message of the scenario that can be delivered
\* is delivered again and again.
SpecLive ==
    InitE2E /\ [][NextE2E]_vars /\ \A bytes \in ScenarioWire : WF_vars(Deliver(1, bytes))

---------------------------------------------------------------------------
(* Properties of the scenario, under SpecE2E and SpecLive *)

\* A Propose the node must accept: it carries a signature of the leader of
\* the block's epoch, the parent of the block is in the node's tree and the
\* epoch of the block is not below that of any block the node holds.
ValidPropose(n, m) ==
    /\ m.kind = "Propose"
    /\ m.payload.tag = "Block"
    /\ BlockParent(m.payload.v) \in blockchain_manager[n].tree
    /\ \A t \in blockchain_manager[n].tree : BlockEpoch(m.payload.v) >= BlockEpoch(t)
    /\ IsSome(m.signatures)
    /\ \E i \in 1..Len(Unwrap(m.signatures)) :
           verify_signature(Self(n), m, Unwrap(m.signatures)[i],
                            LeaderKey(BlockEpoch(m.payload.v)))

\* The bytes are a Vote for block b that carries the one signature of self
IsOwnVote(self, bytes, b) ==
    /\ ~deserialize(bytes).panic
    /\ deserialize(bytes).message.kind = "Vote"
    /\ deserialize(bytes).message.payload = BlockPayload(b)
    /\ deserialize(bytes).message.signatures
           = Some(<<sign(self, serialize_payload(deserialize(bytes).message))>>)

\* C15: the step that handles a valid Propose of a block the node does not
\* hold inserts the block into the tree and broadcasts exactly one Vote with
\* the node's one signature over the block; the step that handles a Propose
\* of a block the node holds already broadcasts nothing.
C15_VoteOncePerValidPropose ==
    [][(HandledNetworkInput(evt') /\ ~deserialize(Unwrap(evt').data).panic
          /\ ValidPropose(1, deserialize(Unwrap(evt').data).message)) =>
          LET b == deserialize(Unwrap(evt').data).message.payload.v
          IN IF b \notin blockchain_manager[1].tree
             THEN /\ b \in blockchain_manager'[1].tree
                  /\ Len(calls') = 1
                  /\ calls'[1].fn = "broadcast_message"
                  /\ IsOwnVote(Self(1), calls'[1].arg, b)
             ELSE /\ calls' = <<>>
                  /\ blockchain_manager' = blockchain_manager]_vars

\* C17: once the proposals of B1, B2 and B3 and the votes of three of the four
\* validators for each have been delivered to the node, is_notarized is true
\* for the three blocks and the finalized prefix is [genesis, B1].
C17_EndToEndFinalizesB1 ==
    delivered = ScenarioWire =>
        /\ \A b \in 1..3 : is_notarized(Self(1), VotesOf(b)).val
        /\ FinalizedChain(1) = <<Genesis, 1>>

\* C18: with synchronous delivery of the proposals and the votes of three
\* consecutive epochs, a node that keeps running eventually finalizes a block
\* beyond genesis.
C18_EventuallyFinalizes ==
    <>(halted[1] \/ Len(FinalizedChain(1)) > 1)

---------------------------------------------------------------------------
(* Fork choice: two block-tree managers, each given blocks and             *)
(* notarizations in an order of its own; each chooses the tip of its local *)
(* chain anew after every notarization.                                    *)

RECURSIVE BlockHeight(_)
BlockHeight(b) == IF b = Genesis THEN 0 ELSE 1 + BlockHeight(BlockParent(b))

\* Whether the path from genesis to block t runs through notarized blocks of
\* the tree only
RECURSIVE NotarizedPath(_, _)
NotarizedPath(bm, t) ==
    \/ t = Genesis
    \/ /\ t \in bm.tree
       /\ t \in bm.notarized
       /\ NotarizedPath(bm, BlockParent(t))

\* A faulty choice: the tip chosen before is kept until a longer notarized
\* path appears; among paths of one length the first notarized wins.
RECURSIVE BestTipFirstSeen(_, _, _)
BestTipFirstSeen(bm, todo, best) ==
    IF todo = {} THEN best
    ELSE LET t == CHOOSE x \in todo : TRUE
             better == /\ NotarizedPath(bm, t)
                       /\ BlockHeight(t) > BlockHeight(best)
         IN BestTipFirstSeen(bm, todo \ {t}, IF better THEN t ELSE best)

ForkChoiceFirstSeen(bm) == BestTipFirstSeen(bm, bm.tree, bm.tip)

\* The scan over the blocks of the tree: the best tip so far is replaced by
\* the tip of a longer notarized path, or of one as long with a smaller hash.
RECURSIVE BestTip(_, _, _)
BestTip(bm, todo, best) ==
    IF todo = {} THEN best
    ELSE LET t == CHOOSE x \in todo : TRUE
             better == /\ NotarizedPath(bm, t)
                       /\ \/ BlockHeight(t) > BlockHeight(best)
                          \/ BlockHeight(t) = BlockHeight(best) /\ t < best
         IN BestTip(bm, todo \ {t}, IF better THEN t ELSE best)

\* The tip of the local chain of a manager
ForkChoice(bm) == BestTip(bm, bm.tree, Genesis)

MaxBlocks == 5       \* the managers are given the blocks 1..MaxBlocks

InitFork ==
    /\ args = NoArgs
    /\ id = [n \in {1, 2} |-> New(n, 0, DEFAULT_NUM_HOSTS - 1).id]
    /\ expected_peer_count =
           [n \in {1, 2} |-> New(n, 0, DEFAULT_NUM_HOSTS - 1).expected_peer_count]
    /\ public_keys = [n \in {1, 2} |-> New(n, 0, DEFAULT_NUM_HOSTS - 1).public_keys]
    /\ blockchain_manager =
           [n \in {1, 2} |-> New(n, 0, DEFAULT_NUM_HOSTS - 1).blockchain_manager]
    /\ needs_init = [n \in {1, 2} |-> TRUE]
    /\ recv_init = [n \in {1, 2} |-> "open"]
    /\ halted = [n \in {1, 2} |-> FALSE]
    /\ message = NoMessage
    /\ ret = NoRet
    /\ evt = None
    /\ calls = <<>>
    /\ delivered = {}
    /\ NoApp

\* Manager n accepts block b: its parent is in the tree already
AddBlock(n, b) ==
    /\ b \notin blockchain_manager[n].tree
    /\ BlockParent(b) \in blockchain_manager[n].tree
    /\ blockchain_manager' = [blockchain_manager EXCEPT ![n].tree = @ \cup {b}]
    /\ UNCHANGED <<args, AppVars, id, expected_peer_count, public_keys, needs_init, recv_init,
                   halted, message, ret, evt, calls, delivered>>

\* Block b of the tree of manager n reaches its quorum: it is notarized and
\* the local chain is chosen anew
Notarize(n, b) ==
    /\ b \in blockchain_manager[n].tree
    /\ b \notin blockchain_manager[n].notarized
    /\ LET bm == [blockchain_manager[n] EXCEPT !.notarized = @ \cup {b}]
       IN blockchain_manager' =
              [blockchain_manager EXCEPT ![n] = [bm EXCEPT !.tip = ForkChoice(bm)]]
    /\ UNCHANGED <<args, AppVars, id, expected_peer_count, public_keys, needs_init, recv_init,
                   halted, message, ret, evt, calls, delivered>>

NextFork ==
    \/ \E n \in {1, 2}, b \in 1..MaxBlocks : AddBlock(n, b)
    \/ \E n \in {1, 2}, b \in 1..MaxBlocks : Notarize(n, b)

SpecFork == InitFork /\ [][NextFork]_vars

\* C16: two managers that hold the same block tree and the same notarized
\* blocks have the same local chain tip, and the tip of a manager ends a
\* notarized path from genesis that no notarized path of its tree exceeds in
\* length and none of the same length undercuts in tip hash.
C16_ForkChoiceDeterministic ==
    /\ (blockchain_manager[1].tree = blockchain_manager[2].tree
           /\ blockchain_manager[1].notarized = blockchain_manager[2].notarized)
          => blockchain_manager[1].tip = blockchain_manager[2].tip
    /\ \A n \in {1, 2} :
          LET bm == blockchain_manager[n]
          IN /\ NotarizedPath(bm, bm.tip)
             /\ \A t \in bm.tree :
                    NotarizedPath(bm, t) =>
                       \/ BlockHeight(t) < BlockHeight(bm.tip)
                       \/ BlockHeight(t) = BlockHeight(bm.tip) /\ bm.tip <= t

\* Both managers hold B1, B2 and the competitor 5 of B2, all notarized, and
\* chose B2, the smaller hash of the two paths of length two.
C16_Witness ==
    /\ blockchain_manager[1].tree = {Genesis, 1, 2, 5}
    /\ blockchain_manager[2].tree = {Genesis, 1, 2, 5}
    /\ blockchain_manager[1].notarized = {Genesis, 1, 2, 5}
    /\ blockchain_manager[2].notarized = {Genesis, 1, 2, 5}
    /\ blockchain_manager[1].tip = 2
    /\ blockchain_manager[2].tip = 2

---------------------------------------------------------------------------
(* The example blockchain app (rust-blockchain-example/src/main.rs and     *)
(* p2p.rs): one node whose App holds a chain of blocks, with its delayed   *)
(* Init event, the messages floodsub delivers to it and the commands of    *)
(* its user.                                                               *)

\* Block { data, hash, prev_hash }: hashes are numbers, EmptyHash the hash ""
EmptyHash == 0
AppBlock(hash, prev_hash) == [hash |-> hash, prev_hash |-> prev_hash]

\* The block that App::genesis builds, main.rs:52-58
GenesisBlock == AppBlock(1, EmptyHash)

\* block.validate_block(previous): the block names the hash of the previous
\* block as its prev_hash
validate_block(block, previous) == block.prev_hash = previous.hash

\* The loop of is_chain_valid from the 0-based index i, main.rs:72-82
RECURSIVE ChainLoop(_, _)
ChainLoop(chain, i) ==
    IF i >= Len(chain) THEN TRUE
    ELSE IF i = 0 THEN ChainLoop(chain, i + 1)
    ELSE IF ~validate_block(chain[i + 1], chain[i]) THEN FALSE
    ELSE ChainLoop(chain, i + 1)

\* fn is_chain_valid(&self, chain)
is_chain_valid(chain) == ChainLoop(chain, 0)

\* A faulty choose_chain: of two valid chains of one length the remote wins.
choose_chain_remote_on_tie(local, remote) ==
    LET is_local_valid == is_chain_valid(local)
        is_remote_valid == is_chain_valid(remote)
    IN IF is_local_valid /\ is_remote_valid
       THEN [panic |-> FALSE,
             chain |-> IF Len(local) > Len(remote) THEN local ELSE remote]
       ELSE IF is_remote_valid /\ ~is_local_valid
       THEN [panic |-> FALSE, chain |-> remote]
       ELSE IF ~is_remote_valid /\ is_local_valid
       THEN [panic |-> FALSE, chain |-> local]
       ELSE [panic |-> TRUE, chain |-> local]

\* fn choose_chain(&mut self, local, remote): the chain chosen, or the panic
\* on two invalid chains, main.rs:86-103
choose_chain(local, remote) ==
    LET is_local_valid == is_chain_valid(local)
        is_remote_valid == is_chain_valid(remote)
    IN IF is_local_valid /\ is_remote_valid
       THEN [panic |-> FALSE,
             chain |-> IF Len(local) >= Len(remote) THEN local ELSE remote]
       ELSE IF is_remote_valid /\ ~is_local_valid
       THEN [panic |-> FALSE, chain |-> remote]
       ELSE IF ~is_remote_valid /\ is_local_valid
       THEN [panic |-> FALSE, chain |-> local]
       ELSE [panic |-> TRUE, chain |-> local]

\* fn try_add_block(&mut self, block) on self.blocks = chain: the blocks
\* afterwards, or the panic of expect on an empty chain, main.rs:62-69
try_add_block(chain, block) ==
    IF Len(chain) = 0 THEN [panic |-> TRUE, blocks |-> chain]
    ELSE LET latest_block == chain[Len(chain)]
         IN IF validate_block(block, latest_block)
            THEN [panic |-> FALSE, blocks |-> Append(chain, block)]
            ELSE [panic |-> FALSE, blocks |-> chain]

\* fn genesis(&mut self): the blocks afterwards, main.rs:51-60
genesis(chain) == Append(chain, GenesisBlock)

\* Block::new(id, prev_hash, data): the hash of the new block is made from
\* its content; the next number after the hash of its predecessor stands for it
BlockNew(prev_hash) == AppBlock(prev_hash + 1, prev_hash)

\* handle_create_block(data, swarm) on app.blocks = chain: the blocks
\* afterwards, or the panic of expect on an empty chain, p2p.rs:173-191
handle_create_block(chain, data) ==
    IF Len(chain) = 0 THEN [panic |-> TRUE, blocks |-> chain]
    ELSE LET latest_block == chain[Len(chain)]
             block == BlockNew(latest_block.hash)
         IN [panic |-> FALSE, blocks |-> Append(chain, block)]

MaxChain == 3        \* longest local chain of the example app
MaxResponses == 1    \* most responses waiting in the channel at a time

\* The blocks peers publish: the successor of genesis, its successor, a
\* competitor of that one, and a block that names itself as its predecessor
WireBlocks == {AppBlock(2, 1), AppBlock(3, 2), AppBlock(3, 1), AppBlock(2, 2)}

\* The chains peers send: none, genesis alone, valid chains of two and three
\* blocks, a lone block that is not genesis, and two chains with a broken link
RemoteChains ==
    {<<>>,
     <<GenesisBlock>>,
     <<GenesisBlock, AppBlock(2, 1)>>,
     <<GenesisBlock, AppBlock(2, 1), AppBlock(3, 2)>>,
     <<AppBlock(3, 2)>>,
     <<GenesisBlock, AppBlock(3, 2)>>,
     <<AppBlock(2, 1), GenesisBlock>>}

\* PEER_ID of this node and of another, p2p.rs:22
Me == "me"
PeerIds == {Me, "other"}

\* What floodsub delivers, by the type its data parses as (p2p.rs:100-120);
\* data that parses as none of the three is of type "Other"
ChainResponse(chain, receiver) ==
    [type |-> "ChainResponse", blocks |-> chain, receiver |-> receiver]
LocalChainRequest(from_peer_id) ==
    [type |-> "LocalChainRequest", from_peer_id |-> from_peer_id]
BlockMessage(block) == [type |-> "Block", block |-> block]

AppWire ==
    {ChainResponse(chain, receiver) : chain \in RemoteChains, receiver \in PeerIds}
    \cup {LocalChainRequest(from_peer_id) : from_peer_id \in PeerIds}
    \cup {BlockMessage(block) : block \in WireBlocks}
    \cup {[type |-> "Other"]}

\* The lines of the user of the app.  "send m" is left out: its handler,
\* p2p::handle_send_msg, is not in the source.
AppLines ==
    {<<"l", "s", " ", "p">>, <<"l", "s", " ", "c">>,
     <<"c", "r", "e", "a", "t", "e", " ", "b">>,
     <<"c", "r", "e", "a", "t", "e", " ", "b", " ", "x">>,
     <<"l", "s">>}

CreateB == <<"c", "r", "e", "a", "t", "e", " ", "b">>

\* enum EventType of the app, p2p.rs:42-46
AppInitEvent == [type |-> "Init", data |-> <<>>]
AppInputEvent(line) == [type |-> "Input", data |-> line]
LocalChainResponseEvent == [type |-> "LocalChainResponse", data |-> <<>>]

\* The variables of the Streamlet node, which no step of the app touches
StreamletVars ==
    <<id, expected_peer_count, public_keys, blockchain_manager, needs_init,
      recv_init, message, ret, delivered, args>>

\* App::new() and main up to its loop, main.rs:108-158
InitApp ==
    /\ args = NoArgs
    /\ id = [n \in {1} |-> 0]
    /\ expected_peer_count = [n \in {1} |-> 0]
    /\ public_keys = [n \in {1} |-> <<>>]
    /\ blockchain_manager = [n \in {1} |-> BlockchainManagerNew]
    /\ needs_init = [n \in {1} |-> TRUE]
    /\ recv_init = [n \in {1} |-> "open"]
    /\ halted = [n \in {1} |-> FALSE]
    /\ message = NoMessage
    /\ ret = NoRet
    /\ evt = None
    /\ calls = <<>>
    /\ delivered = {}
    /\ blocks = <<>>
    /\ init_rcv = "open"
    /\ response_rcv = 0

\* The spawned task: sleep one second, then init_sender.send(true),
\* main.rs:161-167
AppInitTimer ==
    /\ ~halted[1]
    /\ init_rcv = "open"
    /\ init_rcv' = "sent"
    /\ evt' = None
    /\ calls' = <<Call("init_sender.send", <<TRUE>>)>>
    /\ UNCHANGED <<blocks, response_rcv, halted, StreamletVars>>

\* The select branch of init_rcv.recv() and the Init handler: do_init, which
\* adds the genesis block (main.rs:182-184, 195-197, 219-241).  The request
\* it publishes when it knows a peer changes nothing of this node.
AppInit ==
    /\ ~halted[1]
    /\ init_rcv = "sent"
    /\ Len(blocks) < MaxChain
    /\ init_rcv' = "received"
    /\ blocks' = genesis(blocks)
    /\ evt' = Some(AppInitEvent)
    /\ calls' = <<Call("genesis", <<>>)>>
    /\ UNCHANGED <<response_rcv, halted, StreamletVars>>

\* The select branch of swarm.select_next_some() (main.rs:186-188) with a
\* floodsub message for this node: inject_event, p2p.rs:97-125
AppFloodsub(msg) ==
    /\ ~halted[1]
    /\ evt' = None
    /\ CASE msg.type = "ChainResponse" ->
              IF msg.receiver = Me
              THEN LET r == choose_chain(blocks, msg.blocks)
                   IN /\ blocks' = r.chain
                      /\ halted' = [halted EXCEPT ![1] = r.panic]
                      /\ calls' = <<Call("choose_chain", msg.blocks)>>
                      /\ UNCHANGED response_rcv
              ELSE /\ calls' = <<>>
                   /\ UNCHANGED <<blocks, halted, response_rcv>>
         [] msg.type = "LocalChainRequest" ->
              IF msg.from_peer_id = Me
              THEN /\ response_rcv < MaxResponses
                   /\ response_rcv' = response_rcv + 1
                   /\ calls' = <<Call("response_sender.send", blocks)>>
                   /\ UNCHANGED <<blocks, halted>>
              ELSE /\ calls' = <<>>
                   /\ UNCHANGED <<blocks, halted, response_rcv>>
         [] msg.type = "Block" ->
              LET r == try_add_block(blocks, msg.block)
              IN /\ Len(blocks) < MaxChain
                 /\ blocks' = r.blocks
                 /\ halted' = [halted EXCEPT ![1] = r.panic]
                 /\ calls' = <<Call("try_add_block", <<msg.block>>)>>
                 /\ UNCHANGED response_rcv
         [] msg.type = "Other" ->
              /\ calls' = <<>>
              /\ UNCHANGED <<blocks, halted, response_rcv>>
    /\ UNCHANGED <<init_rcv, StreamletVars>>

\* The select branch of response_rcv.recv() and the LocalChainResponse
\* handler, which publishes the response, main.rs:178-180, 198-205
AppLocalChainResponse ==
    /\ ~halted[1]
    /\ response_rcv > 0
    /\ response_rcv' = response_rcv - 1
    /\ evt' = Some(LocalChainResponseEvent)
    /\ calls' = <<Call("floodsub.publish", <<"chains">>)>>
    /\ UNCHANGED <<blocks, init_rcv, halted, StreamletVars>>

\* The select branch of stdin.next_line() and the Input handler,
\* main.rs:176, 206-213
AppInput(line) ==
    /\ ~halted[1]
    /\ evt' = Some(AppInputEvent(line))
    /\ IF line # <<"l", "s", " ", "p">> /\ ~starts_with(line, <<"l", "s", " ", "c">>)
          /\ starts_with(line, CreateB)
       THEN LET r == handle_create_block(blocks, line)
            IN /\ Len(blocks) < MaxChain
               /\ blocks' = r.blocks
               /\ halted' = [halted EXCEPT ![1] = r.panic]
               /\ calls' = <<Call("handle_create_block", line)>>
       ELSE /\ calls' = <<>>
            /\ UNCHANGED <<blocks, halted>>
    /\ UNCHANGED <<init_rcv, response_rcv, StreamletVars>>

\* stdin at end of file: expect("can read line from stdin") panics, main.rs:176
AppInputEof ==
    /\ ~halted[1]
    /\ halted' = [halted EXCEPT ![1] = TRUE]
    /\ evt' = None
    /\ calls' = <<>>
    /\ UNCHANGED <<blocks, init_rcv, response_rcv, StreamletVars>>

NextApp ==
    \/ AppInitTimer
    \/ AppInit
    \/ \E msg \in AppWire : AppFloodsub(msg)
    \/ AppLocalChainResponse
    \/ \E line \in AppLines : AppInput(line)
    \/ AppInputEof

SpecApp == InitApp /\ [][NextApp]_vars

---------------------------------------------------------------------------
(* Properties of the example app, under SpecApp *)

\* Every block of the chain but the first validates against the one before
LinksHold(chain) ==
    \A i \in 2..Len(chain) : validate_block(chain[i], chain[i - 1])

\* The step called app.choose_chain, app.try_add_block, handle_create_block
Called(c, fn) == Len(c) = 1 /\ c[1].fn = fn

\* C26: the step that handles a chain response for this node ends in a panic
\* exactly when neither the local nor the remote chain is valid, and
\* otherwise leaves as the local chain the longer of two valid chains, the
\* local one when they are equally long, or the one valid chain; a chain is
\* valid exactly when all its links hold, so one of no or one block always is.
C26_ChooseChainLongestValid ==
    [][Called(calls', "choose_chain") =>
          LET local == blocks
              remote == calls'[1].arg
          IN /\ is_chain_valid(local) <=> LinksHold(local)
             /\ is_chain_valid(remote) <=> LinksHold(remote)
             /\ Len(remote) <= 1 => is_chain_valid(remote)
             /\ halted'[1] <=> (~LinksHold(local) /\ ~LinksHold(remote))
             /\ ~halted'[1] =>
                    blocks' =
                        IF LinksHold(local) /\ LinksHold(remote)
                        THEN IF Len(remote) > Len(local) THEN remote ELSE local
                        ELSE IF LinksHold(remote) THEN remote ELSE local]_vars

\* After Init the node was sent the valid chain of three blocks, longer than
\* its own, and holds it.
C26_Witness ==
    /\ init_rcv = "received"
    /\ calls = <<Call("choose_chain",
                      <<GenesisBlock, AppBlock(2, 1), AppBlock(3, 2)>>)>>
    /\ blocks = <<GenesisBlock, AppBlock(2, 1), AppBlock(3, 2)>>
    /\ ~halted[1]

\* C27: whenever a step hands a block from the network to try_add_block or
\* creates a block with handle_create_block, the local chain holds at least
\* one block, so the step finds its latest block and does not panic.
C27_ChainNeverEmptyWhenUsed ==
    [][(Called(calls', "try_add_block") \/ Called(calls', "handle_create_block")) =>
          /\ Len(blocks) >= 1
          /\ ~halted'[1]]_vars

\* The chain has a last block and the block validates against it
ValidatesAgainstLast(chain, block) ==
    Len(chain) >= 1 /\ validate_block(block, chain[Len(chain)])

\* C28: the step that hands a received block to try_add_block leaves the
\* local chain with the block appended when the block validates against the
\* last block of the chain, and as it was when it does not; either way the
\* node runs on.
C28_TryAddBlockAppendsIffValid ==
    [][Called(calls', "try_add_block") =>
          /\ blocks' = IF ValidatesAgainstLast(blocks, calls'[1].arg[1])
                       THEN Append(blocks, calls'[1].arg[1])
                       ELSE blocks
          /\ ~halted'[1]]_vars

====
